---- MODULE Spec2Model ----
(***************************************************************************)
(* A model of src/server.go: a single-threaded HTTP/1.0 server.  The file  *)
(* holds two programs (two "package main" texts):                          *)
(*   "syscall"  lines   1-265: raw sockets, serveMux, parseRequest         *)
(*   "net"      lines 267-429: net.Listen, defaultServeMux, readRequest    *)
(* The variable `variant` says which of the two programs is running.       *)
(*                                                                         *)
(* Byte strings are TLA+ strings; Len is the byte length.  A client sends  *)
(* its request in segments; the server reads them through a bufio.Reader.  *)
(***************************************************************************)
EXTENDS Integers, Sequences, FiniteSets, TLC

VARIABLES
    variant,    \* "syscall" or "net": which program of src/server.go runs
    pc,         \* position of main: "main", "listen", "accept", "readline",
                \* "readheader", "readbody", "routing", "writing", "halt", "mux"
    proc,       \* "running", "panic" (Go panic), "fatal" (log.Fatal: exit 1)
    cause,      \* what ended the process: "", "setup", "accept", "parse", "read", "route"
    muxes,      \* the route table: pattern -> handler name
    forkLock,   \* TRUE while syscall.ForkLock is held
    listenFd,   \* "none", "open", "listening", "closed"
    opened,     \* connection sockets returned by Accept
    closed,     \* connection sockets closed by the server loop
    cin,        \* the request the current client sends: [head, body]
    toSend,     \* bytes the client has not sent yet
    wire,       \* bytes sent by the client and not yet read by the server
    peer,       \* "open", "closed" (client shut its sending side), "reset"
    buf,        \* unread bytes held by the bufio.Reader
    line,       \* the request line as ReadLine returned it (NoLine before)
    req,        \* the parsed request (NoReq before the parser returns one)
    cur,        \* the request under construction inside the parser
    acc,        \* bytes ioutil.ReadAll has gathered so far
    bodyRead,   \* TRUE once the parser read the connection after the header block
    found,      \* result of findHandler: [key, handler, err]
    wlog,       \* bytes handed to responseWriter.Write (the emitted response)
    sent,       \* bytes the socket accepted
    errLog,     \* the per-connection error main logged ("" if none)
    quri        \* the URI of the last resolve of the route-table specification

vars == <<variant, pc, proc, cause, muxes, forkLock, listenFd, opened, closed,
          cin, toSend, wire, peer, buf, line, req, cur, acc, bodyRead, found,
          wlog, sent, errLog, quri>>

connVars == <<cin, toSend, wire, peer, buf, line, req, cur, acc, bodyRead, found,
              wlog, sent, errLog>>

-----------------------------------------------------------------------------
(* Bounds of the model *)

\* connections the model accepts before it stops accepting
MaxConns == 2
\* a client may cut its stream up to this many bytes after the header block
MaxBodyCut == 2
\* entries a route table of the route-table specification may hold
MaxRoutes == 3

(* Program constants *)

\* readRequest: body := make([]byte, 1024)
BodyCap == 1024
\* bufio.NewReader: the default buffer size of package bufio
BufSize == 4096

-----------------------------------------------------------------------------
(* Go strings *)

Min(S) == CHOOSE i \in S : \A j \in S : i <= j

\* strings.Index(s, sub): 0-based index of the first occurrence, -1 if none
Index(s, sub) ==
    LET I == {i \in 0..(Len(s) - Len(sub)) : SubSeq(s, i + 1, i + Len(sub)) = sub}
    IN  IF I = {} THEN -1 ELSE Min(I)

\* s[lo:hi]; the caller checks 0 <= lo <= hi <= len(s) (Go panics otherwise)
Slice(s, lo, hi) == SubSeq(s, lo + 1, hi)

SliceOk(s, lo, hi) == 0 <= lo /\ lo <= hi /\ hi <= Len(s)

\* strings.HasPrefix(s, prefix)
HasPrefix(s, prefix) ==
    Len(prefix) <= Len(s) /\ SubSeq(s, 1, Len(prefix)) = prefix

\* strings.Split(s, sep) for a one-byte sep: always at least one token
RECURSIVE Split(_, _)
Split(s, sep) ==
    LET i == Index(s, sep)
    IN  IF i < 0 THEN <<s>>
        ELSE <<Slice(s, 0, i)>> \o Split(Slice(s, i + 1, Len(s)), sep)

Digits == "0123456789"

\* fmt's %d of a non-negative int
RECURSIVE Itoa(_)
Itoa(n) ==
    IF n < 10 THEN SubSeq(Digits, n + 1, n + 1)
    ELSE Itoa(n \div 10) \o SubSeq(Digits, (n % 10) + 1, (n % 10) + 1)

\* n copies of the byte c
RECURSIVE Rep(_, _)
Rep(c, n) ==
    IF n = 0 THEN ""
    ELSE LET h == Rep(c, n \div 2)
         IN  IF n % 2 = 0 THEN h \o h ELSE h \o h \o c

RECURSIVE Concat(_)
Concat(chunks) ==
    IF chunks = <<>> THEN "" ELSE Head(chunks) \o Concat(Tail(chunks))

LowerAlphabet == "abcdefghijklmnopqrstuvwxyz"
UpperAlphabet == "ABCDEFGHIJKLMNOPQRSTUVWXYZ"

ToUpper(c) ==
    LET i == Index(LowerAlphabet, c)
    IN  IF i < 0 THEN c ELSE SubSeq(UpperAlphabet, i + 1, i + 1)

ToLower(c) ==
    LET i == Index(UpperAlphabet, c)
    IN  IF i < 0 THEN c ELSE SubSeq(LowerAlphabet, i + 1, i + 1)

\* textproto.CanonicalMIMEHeaderKey: upper-case the first letter and every
\* letter after a hyphen, lower-case the others
RECURSIVE CanonicalTail(_, _)
CanonicalTail(s, upper) ==
    IF s = "" THEN ""
    ELSE LET c == SubSeq(s, 1, 1)
         IN  (IF upper THEN ToUpper(c) ELSE ToLower(c))
             \o CanonicalTail(Tail(s), c = "-")

CanonicalMIMEHeaderKey(s) == CanonicalTail(s, TRUE)

\* textproto's trim of spaces and tabs around a header value
RECURSIVE TrimLeft(_)
TrimLeft(s) ==
    IF s # "" /\ SubSeq(s, 1, 1) \in {" ", "\t"} THEN TrimLeft(Tail(s)) ELSE s

RECURSIVE TrimRight(_)
TrimRight(s) ==
    IF s # "" /\ SubSeq(s, Len(s), Len(s)) \in {" ", "\t"}
    THEN TrimRight(SubSeq(s, 1, Len(s) - 1)) ELSE s

Trim(s) == TrimRight(TrimLeft(s))

-----------------------------------------------------------------------------
(* The request parser: bufio.Reader, textproto.Reader, parseRequest, readRequest *)

NoHeader == [k \in {} |-> <<>>]

NoReq == [nil |-> TRUE, method |-> "", uri |-> "", proto |-> "",
          header |-> NoHeader, body |-> ""]

NoFound == [key |-> "", handler |-> "", err |-> FALSE]

CRLF == "\r\n"

HasLine(b) == Index(b, "\n") >= 0

\* bufio.Reader.ReadLine as textproto.Reader.ReadLine uses it: the bytes up to
\* the first "\n", without the "\n" and without one "\r" before it.  At the
\* end of input the unterminated rest is returned as it is.
TakeLine(b) ==
    LET nl  == Index(b, "\n")
        raw == Slice(b, 0, nl)
    IN  IF nl < 0 THEN [line |-> b, rest |-> ""]
        ELSE [line |-> IF raw # "" /\ SubSeq(raw, Len(raw), Len(raw)) = "\r"
                       THEN SubSeq(raw, 1, Len(raw) - 1) ELSE raw,
              rest |-> Slice(b, nl + 1, Len(b))]

\* a request-line split that keeps only the path of the URI, without its query
parseRequestLine_stripsQuery(s) ==
    LET sp == Split(s, " ")
    IN  IF Len(sp) < 3
        THEN [ok |-> FALSE, method |-> "", uri |-> "", proto |-> ""]
        ELSE [ok |-> TRUE, method |-> sp[1], uri |-> Split(sp[2], "?")[1],
              proto |-> sp[3]]

\* parseRequest, lines 193-194: sp := strings.Split(s, " "); sp[0], sp[1], sp[2].
\* ok = FALSE is the index-out-of-range panic of sp[1] or sp[2].
parseRequestLine(s) ==
    LET sp == Split(s, " ")
    IN  IF Len(sp) < 3
        THEN [ok |-> FALSE, method |-> "", uri |-> "", proto |-> ""]
        ELSE [ok |-> TRUE, method |-> sp[1], uri |-> sp[2], proto |-> sp[3]]

\* readRequest, lines 355-358: two strings.Index and three slice expressions.
\* ok = FALSE is the slice-bounds-out-of-range panic of s[:s1] or s[s1+1:s2].
readRequestLine(s) ==
    LET s1 == Index(s, " ")
        s2 == Index(Slice(s, s1 + 1, Len(s)), " ") + s1 + 1
    IN  IF SliceOk(s, 0, s1) /\ SliceOk(s, s1 + 1, s2) /\ SliceOk(s, s2 + 1, Len(s))
        THEN [ok |-> TRUE, method |-> Slice(s, 0, s1), uri |-> Slice(s, s1 + 1, s2),
              proto |-> Slice(s, s2 + 1, Len(s))]
        ELSE [ok |-> FALSE, method |-> "", uri |-> "", proto |-> ""]

\* MIMEHeader.Add under the canonical key
AddHeader(hdr, k, v) ==
    IF k \in DOMAIN hdr THEN [hdr EXCEPT ![k] = Append(@, v)]
    ELSE hdr @@ (k :> <<v>>)

\* textproto.Reader.ReadMIMEHeader on the buffered text: header lines up to a
\* blank line.  st = "more": the block is not complete and input has not ended
\* (the reader blocks in a read); "ok": blank line found; "err": a line without
\* a colon, or the input ended first.  rest is what stays unread.
\* Lines are shorter than the bufio buffer and none is a continuation line.
RECURSIVE MIMEHeaderFrom(_, _, _)
MIMEHeaderFrom(text, ended, hdr) ==
    IF ~HasLine(text) /\ ~ended THEN [st |-> "more", hdr |-> hdr, rest |-> text]
    ELSE IF text = "" THEN [st |-> "err", hdr |-> hdr, rest |-> ""]
    ELSE LET t     == TakeLine(text)
             colon == Index(t.line, ":")
         IN  IF t.line = "" THEN [st |-> "ok", hdr |-> hdr, rest |-> t.rest]
             ELSE IF colon < 0 THEN [st |-> "err", hdr |-> hdr, rest |-> t.rest]
             ELSE MIMEHeaderFrom(t.rest, ended,
                      AddHeader(hdr,
                                CanonicalMIMEHeaderKey(Slice(t.line, 0, colon)),
                                Trim(Slice(t.line, colon + 1, Len(t.line)))))

ReadMIMEHeader(text, ended) == MIMEHeaderFrom(text, ended, NoHeader)

\* The lookup each request type offers on its header field.  Line 179: the
\* field is a textproto.MIMEHeader, whose Get and Values canonicalise the name
\* before indexing.  Line 336: header is a defined type over the bare map and
\* has no methods, so its lookup is the map index; a missing key gives nil.
Lookup(v, hdr, name) ==
    LET key == IF v = "syscall" THEN CanonicalMIMEHeaderKey(name) ELSE name
    IN  IF key \in DOMAIN hdr THEN hdr[key] ELSE <<>>

\* lines 201 and 371: the methods for which the parser returns without a body
NoBodyMethod(v, method) ==
    IF v = "syscall" THEN method \in {"GET", "HEAD"} ELSE method = "GET"

\* a body read that copies everything available, whatever its length
BodyTake_uncapped(avail) == Len(avail)

\* readRequest, lines 376-379: one bufio Read into a buffer of BodyCap bytes
\* copies at most BodyCap of the bytes available
BodyTake(avail) == IF Len(avail) < BodyCap THEN Len(avail) ELSE BodyCap

-----------------------------------------------------------------------------
(* The route table: serveMux (lines 119-154), defaultServeMux (lines 311-329) *)

NoRoutes == [k \in {} |-> ""]

\* m[pattern] = handler
handle(m, pattern, handler) ==
    IF pattern \in DOMAIN m THEN [m EXCEPT ![pattern] = handler]
    ELSE m @@ (pattern :> handler)

\* the orders in which "for k, v := range m" may visit the keys of m
RangeOrders(m) ==
    LET n == Cardinality(DOMAIN m)
    IN  {o \in [1..n -> DOMAIN m] : \A i, j \in 1..n : o[i] = o[j] => i = j}

NilHandler == [key |-> "", handler |-> "nil", err |-> TRUE]

\* serveMux.findHandler, lines 130-140: the loop body from position i on, with
\* h (kept with the key it was stored under) and l as the loop left them
RECURSIVE serveMux_range(_, _, _, _, _, _)
serveMux_range(m, o, i, uri, h, l) ==
    IF i > Len(o) THEN h
    ELSE IF HasPrefix(uri, o[i]) /\ Len(o[i]) > l
         THEN serveMux_range(m, o, i + 1, uri,
                  [key |-> o[i], handler |-> m[o[i]], err |-> FALSE], Len(o[i]))
         ELSE serveMux_range(m, o, i + 1, uri, h, l)

\* serveMux.findHandler under the range order o; h == nil is the error return
serveMux_findHandler(m, o, uri) == serveMux_range(m, o, 1, uri, NilHandler, 0)

\* findHandler of the "net" program, lines 317-329: the first key in range
\* order that is a prefix of the URI
RECURSIVE findHandler_range(_, _, _, _)
findHandler_range(m, o, i, uri) ==
    IF i > Len(o) THEN NilHandler
    ELSE IF HasPrefix(uri, o[i])
         THEN [key |-> o[i], handler |-> m[o[i]], err |-> FALSE]
         ELSE findHandler_range(m, o, i + 1, uri)

findHandler(m, o, uri) == findHandler_range(m, o, 1, uri)

\* what findHandler may return, over the range orders of the map
findHandlerResults(v, m, uri) ==
    {IF v = "syscall" THEN serveMux_findHandler(m, o, uri) ELSE findHandler(m, o, uri) :
        o \in RangeOrders(m)}

\* main, lines 217-223 and 386-387: the routes each program registers
mainRoutes(v) ==
    IF v = "syscall"
    THEN handle(handle(handle(NoRoutes, "/hello", "hello"),
                       "/notfound", "notFound"), "/", "fallback")
    ELSE handle(handle(NoRoutes, "/", "logHandler"), "/notfound", "notFoundHandler")

-----------------------------------------------------------------------------
(* Handlers: the sequence of Write calls each one makes *)

\* writeHtml with a Content-Length that also counts a CRLF after the body
writeHtml_countsCRLF(html) ==
    << "HTTP/1.0 200 OK\r\n",
       "Content-Type: text/html; charset=utf-8\r\n",
       "Content-Length: " \o Itoa(Len(html \o CRLF)) \o "\r\n",
       "\r\n",
       html >>

\* writeHtml, lines 156-166
writeHtml(html) ==
    << "HTTP/1.0 200 OK\r\n",
       "Content-Type: text/html; charset=utf-8\r\n",
       "Content-Length: " \o Itoa(Len(html)) \o "\r\n",
       "\r\n",
       html >>

\* notFound, lines 168-175
notFound ==
    << "HTTP/1.0 404 Not Found\r\n"
       \o "Content-Type: text/plain; charset=utf-8\r\n"
       \o "Content-Length: 0\r\n"
       \o "Connection: close\r\n"
       \o "\r\n" >>

\* logHandler, lines 297-303
logHandler ==
    << "HTTP/1.0 200 OK\r\n",
       "Content-Type: text/html; charset=utf-8\r\n",
       "Content-Length: 14\r\n",
       "\r\n",
       "<h1>hello</h1>" >>

\* notFoundHandler, lines 331-334
notFoundHandler ==
    << "HTTP/1.0 404 Not Found"
       \o "\r\nContent-Type: text/plain; charset=utf-8\r\nConnection: close\r\n\r\n" >>

\* the Write calls of the handler named h for request r
HandlerWrites(h, r) ==
    CASE h = "hello"           -> writeHtml("<h1>Hello world</h1>")
      [] h = "fallback"        -> writeHtml("<h1>Using fallback matcher for path: "
                                            \o r.uri \o "</h1>")
      [] h = "notFound"        -> notFound
      [] h = "logHandler"      -> logHandler
      [] h = "notFoundHandler" -> notFoundHandler

\* the handlers that return the error of their write (handlerFunc of the
\* "syscall" program; writeHtml returns nil whatever its writes did)
ReturnsWriteError(h) == h = "notFound"

-----------------------------------------------------------------------------
(* Clients: the requests they send and where they cut the byte stream *)

Rq(head, body) == [head |-> head, body |-> body]

Inputs ==
    { Rq("GET /hello HTTP/1.0" \o CRLF \o CRLF, ""),
      Rq("GET /notfound HTTP/1.0" \o CRLF \o CRLF, ""),
      Rq("GET /a%20b?q=1 HTTP/1.0" \o CRLF \o CRLF, ""),
      Rq("GET http://a/ HTTP/1.0" \o CRLF \o CRLF, ""),
      Rq("GET / HTTP/1.0" \o CRLF \o "content-type: Text/HTML" \o CRLF \o CRLF, "zz"),
      Rq("HEAD / HTTP/1.0" \o CRLF \o CRLF, "xyz"),
      Rq("POST /echo HTTP/1.0" \o CRLF \o "Content-Length: 5" \o CRLF \o CRLF, "hello"),
      Rq("POST /big HTTP/1.0" \o CRLF \o CRLF, Rep("x", BodyCap + 1)),
      Rq("GET /hello" \o CRLF \o CRLF, ""),
      Rq("", "") }

Stream(in) == in.head \o in.body

\* offsets at which a client may end a segment: around the end of the header
\* block, and the end of the stream
Cuts(in) ==
    {c \in 1..Len(Stream(in)) :
        \/ c = Len(Stream(in))
        \/ (c >= Len(in.head) - 1 /\ c <= Len(in.head) + MaxBodyCut)}

SentOffset == Len(Stream(cin)) - Len(toSend)

\* nothing more will arrive: a read returns end of stream or an error
InputEnded == wire = "" /\ peer # "open"

-----------------------------------------------------------------------------
(* Initial state *)

NoConn ==
    /\ cin = Rq("", "") /\ toSend = "" /\ wire = "" /\ peer = "open"
    /\ buf = "" /\ line = <<>> /\ req = NoReq /\ cur = NoReq /\ acc = ""
    /\ bodyRead = FALSE /\ found = NoFound /\ wlog = "" /\ sent = ""
    /\ errLog = ""

Init ==
    /\ variant \in {"syscall", "net"}
    /\ pc = "main" /\ proc = "running" /\ cause = ""
    /\ muxes = NoRoutes
    /\ forkLock = FALSE /\ listenFd = "none"
    /\ opened = 0 /\ closed = 0
    /\ NoConn
    /\ quri = ""

-----------------------------------------------------------------------------
(* main: startup *)

\* a Go panic in main: the deferred socket.Close() of line 228 runs
Panic(c) ==
    /\ proc' = "panic" /\ cause' = c /\ pc' = "halt"
    /\ listenFd' = IF variant = "syscall" /\ listenFd = "listening"
                   THEN "closed" ELSE listenFd

\* lines 217-223, 386-387: the handle calls
main_handle ==
    /\ pc = "main"
    /\ muxes' = mainRoutes(variant)
    /\ pc' = "listen"
    /\ UNCHANGED <<variant, proc, cause, forkLock, listenFd, opened, closed,
                   connVars, quri>>

SetupOutcomes == {"ok", "socket", "setsockopt", "bind", "listen"}

\* newNetSocket, lines 72-104: whether ForkLock is held when it returns
newNetSocket_lock(o) == o = "socket"

\* newNetSocket: the state of the descriptor when it returns
newNetSocket_fd(o) ==
    CASE o = "ok"         -> "listening"
      [] o = "socket"     -> "none"
      [] o = "setsockopt" -> "closed"
      [] o \in {"bind", "listen"} -> "open"

\* lines 227-231: newNetSocket, then panic(err) on an error
main_newNetSocket(o) ==
    /\ pc = "listen" /\ variant = "syscall"
    /\ forkLock' = newNetSocket_lock(o)
    /\ IF o = "ok"
       THEN /\ listenFd' = "listening" /\ pc' = "accept"
            /\ UNCHANGED <<proc, cause>>
       ELSE /\ listenFd' = newNetSocket_fd(o)
            /\ proc' = "panic" /\ cause' = "setup" /\ pc' = "halt"
    /\ UNCHANGED <<variant, muxes, opened, closed, connVars, quri>>

\* main that drops the error of net.Listen and goes on to the loop
main_netListen_ignoresError(o) ==
    /\ pc = "listen" /\ variant = "net"
    /\ listenFd' = IF o = "ok" THEN "listening" ELSE "none"
    /\ pc' = "accept"
    /\ UNCHANGED <<variant, proc, cause, muxes, forkLock, opened, closed,
                   connVars, quri>>

\* lines 390-391: net.Listen with its error dropped; ln.(*net.TCPListener)
\* panics on the nil interface a failed Listen returns
main_netListen(o) ==
    /\ pc = "listen" /\ variant = "net"
    /\ IF o = "ok"
       THEN /\ listenFd' = "listening" /\ pc' = "accept"
            /\ UNCHANGED <<proc, cause>>
       ELSE /\ listenFd' = "none"
            /\ proc' = "panic" /\ cause' = "setup" /\ pc' = "halt"
    /\ UNCHANGED <<variant, muxes, forkLock, opened, closed, connVars, quri>>

-----------------------------------------------------------------------------
(* main: the server loop *)

\* an Accept that does not wait for the handler of the connection before
Accept_early(in) ==
    /\ pc \in {"accept", "writing"} /\ opened < MaxConns
    /\ opened' = opened + 1
    /\ cin' = in /\ toSend' = in.head \o in.body /\ wire' = "" /\ peer' = "open"
    /\ buf' = "" /\ line' = <<>> /\ req' = NoReq /\ cur' = NoReq /\ acc' = ""
    /\ bodyRead' = FALSE /\ found' = NoFound /\ wlog' = "" /\ sent' = ""
    /\ errLog' = ""
    /\ pc' = "readline"
    /\ UNCHANGED <<variant, proc, cause, muxes, forkLock, listenFd, closed, quri>>

\* lines 241-247, 401-408: Accept returns a connection; a client with request
\* `in` has connected
Accept(in) ==
    /\ pc = "accept" /\ opened < MaxConns
    /\ opened' = opened + 1
    /\ cin' = in /\ toSend' = Stream(in) /\ wire' = "" /\ peer' = "open"
    /\ buf' = "" /\ line' = <<>> /\ req' = NoReq /\ cur' = NoReq /\ acc' = ""
    /\ bodyRead' = FALSE /\ found' = NoFound /\ wlog' = "" /\ sent' = ""
    /\ errLog' = ""
    /\ pc' = "readline"
    /\ UNCHANGED <<variant, proc, cause, muxes, forkLock, listenFd, closed, quri>>

\* lines 245-247, 406-408: Accept fails, panic(e)
AcceptError ==
    /\ pc = "accept" /\ opened < MaxConns
    /\ Panic("accept")
    /\ UNCHANGED <<variant, muxes, forkLock, opened, closed, connVars, quri>>

Parsing == pc \in {"readline", "readheader", "readbody"}

\* the client sends the bytes up to offset c
ClientSend(c) ==
    /\ Parsing /\ peer = "open"
    /\ c \in Cuts(cin) /\ c > SentOffset
    /\ wire' = wire \o SubSeq(Stream(cin), SentOffset + 1, c)
    /\ toSend' = SubSeq(Stream(cin), c + 1, Len(Stream(cin)))
    /\ UNCHANGED <<variant, pc, proc, cause, muxes, forkLock, listenFd, opened,
                   closed, cin, peer, buf, line, req, cur, acc, bodyRead, found,
                   wlog, sent, errLog, quri>>

\* the client, having sent everything, shuts its sending side
ClientClose ==
    /\ Parsing /\ peer = "open" /\ toSend = ""
    /\ peer' = "closed"
    /\ UNCHANGED <<variant, pc, proc, cause, muxes, forkLock, listenFd, opened,
                   closed, cin, toSend, wire, buf, line, req, cur, acc, bodyRead,
                   found, wlog, sent, errLog, quri>>

\* the client resets the connection: unread bytes are lost, reads fail
ClientReset ==
    /\ Parsing /\ peer = "open" /\ toSend = ""
    /\ peer' = "reset" /\ wire' = ""
    /\ UNCHANGED <<variant, pc, proc, cause, muxes, forkLock, listenFd, opened,
                   closed, cin, toSend, buf, line, req, cur, acc, bodyRead,
                   found, wlog, sent, errLog, quri>>

\* what one read of the connection into the bufio buffer takes from the wire
FillTake == Min({Len(wire), BufSize - Len(buf)})

\* bufio.Reader.fill, under ReadLine and ReadMIMEHeader: one read of the
\* connection (netSocket.Read, lines 35-44) appended to the buffer
Fill ==
    /\ \/ pc = "readline" /\ ~HasLine(buf)
       \/ pc = "readheader" /\ ReadMIMEHeader(buf, FALSE).st = "more"
    /\ wire # "" /\ Len(buf) < BufSize
    /\ buf' = buf \o SubSeq(wire, 1, FillTake)
    /\ wire' = SubSeq(wire, FillTake + 1, Len(wire))
    /\ UNCHANGED <<variant, pc, proc, cause, muxes, forkLock, listenFd, opened,
                   closed, cin, toSend, peer, line, req, cur, acc, bodyRead,
                   found, wlog, sent, errLog, quri>>

\* lines 190-194, 352-358: ReadLine (its error dropped) and the split of the
\* request line; a line the split cannot index panics
ReadRequestLine ==
    /\ pc = "readline"
    /\ HasLine(buf) \/ InputEnded
    /\ LET t == TakeLine(buf)
           p == IF variant = "syscall" THEN parseRequestLine(t.line)
                ELSE readRequestLine(t.line)
       IN  /\ line' = <<t.line>>
           /\ buf' = t.rest
           /\ IF p.ok
              THEN /\ cur' = [nil |-> FALSE, method |-> p.method, uri |-> p.uri,
                              proto |-> p.proto, header |-> NoHeader, body |-> ""]
                   /\ pc' = "readheader"
                   /\ UNCHANGED <<proc, cause, listenFd>>
              ELSE /\ cur' = cur
                   /\ Panic("parse")
    /\ UNCHANGED <<variant, muxes, forkLock, opened, closed, cin, toSend, wire,
                   peer, req, acc, bodyRead, found, wlog, sent, errLog, quri>>

\* lines 196-203, 361-374: ReadMIMEHeader (its error dropped); for a method
\* without body the parser returns the request
ReadHeader ==
    /\ pc = "readheader"
    /\ LET r == ReadMIMEHeader(buf, InputEnded)
       IN  /\ r.st # "more"
           /\ buf' = r.rest
           /\ cur' = [cur EXCEPT !.header = r.hdr]
           /\ IF NoBodyMethod(variant, cur.method)
              THEN req' = cur' /\ pc' = "routing"
              ELSE req' = req /\ pc' = "readbody"
    /\ UNCHANGED <<variant, proc, cause, muxes, forkLock, listenFd, opened,
                   closed, cin, toSend, wire, peer, line, acc, bodyRead, found,
                   wlog, sent, errLog, quri>>

\* what one read of the connection returns when the bufio buffer is empty
ReadTake == Min({Len(wire), BufSize})

\* line 204, ioutil.ReadAll(b): a Read that returns bytes, from the bufio
\* buffer if it holds any, else from the connection
ReadAll_Read ==
    /\ pc = "readbody" /\ variant = "syscall"
    /\ buf # "" \/ wire # ""
    /\ IF buf # ""
       THEN /\ acc' = acc \o buf /\ buf' = ""
            /\ UNCHANGED <<wire, bodyRead>>
       ELSE /\ acc' = acc \o SubSeq(wire, 1, ReadTake)
            /\ wire' = SubSeq(wire, ReadTake + 1, Len(wire))
            /\ bodyRead' = TRUE
            /\ buf' = buf
    /\ UNCHANGED <<variant, pc, proc, cause, muxes, forkLock, listenFd, opened,
                   closed, cin, toSend, peer, line, req, cur, found, wlog, sent,
                   errLog, quri>>

\* ioutil.ReadAll at the end of the stream: netSocket.Read (lines 35-44) returns
\* syscall.Read's (0, nil), never io.EOF, so ReadAll reads again
ReadAll_EndOfStream ==
    /\ pc = "readbody" /\ variant = "syscall"
    /\ buf = "" /\ wire = "" /\ peer = "closed"
    /\ bodyRead' = TRUE
    /\ UNCHANGED <<variant, pc, proc, cause, muxes, forkLock, listenFd, opened,
                   closed, cin, toSend, wire, peer, buf, line, req, cur, acc,
                   found, wlog, sent, errLog, quri>>

\* lines 205-207 and 253-255: a read error is the only way out of ReadAll;
\* parseRequest returns it and main panics
ReadAll_Error ==
    /\ pc = "readbody" /\ variant = "syscall"
    /\ buf = "" /\ wire = "" /\ peer = "reset"
    /\ bodyRead' = TRUE
    /\ Panic("read")
    /\ UNCHANGED <<variant, muxes, forkLock, opened, closed, cin, toSend, wire,
                   peer, buf, line, req, cur, acc, found, wlog, sent, errLog, quri>>

\* the bytes one b.Read(body) can draw on: the bufio buffer if it holds any,
\* else one read of the connection
readRequest_avail == IF buf # "" THEN buf ELSE SubSeq(wire, 1, ReadTake)

\* lines 376-381: one b.Read into a buffer of 1024 bytes, its error dropped
readRequest_Read ==
    /\ pc = "readbody" /\ variant = "net"
    /\ buf # "" \/ wire # "" \/ peer # "open"
    /\ LET avail == readRequest_avail
           n     == BodyTake(avail)
       IN  /\ req' = [cur EXCEPT !.body = SubSeq(avail, 1, n)]
           /\ buf' = SubSeq(avail, n + 1, Len(avail))
    /\ wire' = IF buf # "" THEN wire ELSE SubSeq(wire, ReadTake + 1, Len(wire))
    /\ bodyRead' = (buf = "")
    /\ pc' = "routing"
    /\ UNCHANGED <<variant, proc, cause, muxes, forkLock, listenFd, opened,
                   closed, cin, toSend, peer, line, cur, acc, found, wlog, sent,
                   errLog, quri>>

\* a routing step that stores the handler it found under the request's URI
Route_memoizes ==
    /\ pc = "routing"
    /\ \E f \in findHandlerResults(variant, muxes, req.uri) :
        /\ found' = f
        /\ muxes' = IF f.err THEN muxes ELSE handle(muxes, req.uri, f.handler)
        /\ IF f.err
           THEN /\ errLog' = "no handler for path: " \o req.uri
                /\ IF variant = "syscall"
                   THEN pc' = "accept" /\ UNCHANGED <<proc, cause>>
                   ELSE proc' = "fatal" /\ cause' = "route" /\ pc' = "halt"
           ELSE /\ pc' = "writing"
                /\ UNCHANGED <<proc, cause, errLog>>
    /\ UNCHANGED <<variant, forkLock, listenFd, opened, closed, cin,
                   toSend, wire, peer, buf, line, req, cur, acc, bodyRead,
                   wlog, sent, quri>>

\* lines 149-152 with 259-263, and 421-425: findHandler; without a handler the
\* "syscall" program logs and continues, the "net" program calls log.Fatal
Route ==
    /\ pc = "routing"
    /\ \E f \in findHandlerResults(variant, muxes, req.uri) :
        /\ found' = f
        /\ IF f.err
           THEN /\ errLog' = "no handler for path: " \o req.uri
                /\ IF variant = "syscall"
                   THEN pc' = "accept" /\ UNCHANGED <<proc, cause>>
                   ELSE proc' = "fatal" /\ cause' = "route" /\ pc' = "halt"
           ELSE /\ pc' = "writing"
                /\ UNCHANGED <<proc, cause, errLog>>
    /\ UNCHANGED <<variant, muxes, forkLock, listenFd, opened, closed, cin,
                   toSend, wire, peer, buf, line, req, cur, acc, bodyRead,
                   wlog, sent, quri>>

\* lines 153 with 259-264, and 426-427: the handler runs; the peer takes the
\* first k writes and the others fail.  The loop goes back to Accept.
Handle ==
    /\ pc = "writing"
    /\ LET ch == HandlerWrites(found.handler, req)
       IN  \E k \in 0..Len(ch) :
             /\ wlog' = Concat(ch)
             /\ sent' = Concat(SubSeq(ch, 1, k))
             /\ errLog' = IF variant = "syscall" /\ ReturnsWriteError(found.handler)
                             /\ k < Len(ch)
                          THEN "write: broken pipe" ELSE ""
    /\ pc' = "accept"
    /\ UNCHANGED <<variant, proc, cause, muxes, forkLock, listenFd, opened,
                   closed, cin, toSend, wire, peer, buf, line, req, cur, acc,
                   bodyRead, found, quri>>

Next ==
    \/ main_handle
    \/ \E o \in SetupOutcomes : main_newNetSocket(o)
    \/ \E o \in {"ok", "listen"} : main_netListen(o)
    \/ \E in \in Inputs : Accept(in)
    \/ AcceptError
    \/ \E c \in Cuts(cin) : ClientSend(c)
    \/ ClientClose
    \/ ClientReset
    \/ Fill
    \/ ReadRequestLine
    \/ ReadHeader
    \/ ReadAll_Read
    \/ ReadAll_EndOfStream
    \/ ReadAll_Error
    \/ readRequest_Read
    \/ Route
    \/ Handle

Spec == Init /\ [][Next]_vars

\* the steps of one cycle from the body read to the return of the handler
AfterHeader ==
    \/ ReadAll_Read
    \/ ReadAll_EndOfStream
    \/ ReadAll_Error
    \/ readRequest_Read
    \/ Route
    \/ Handle

\* The sequential loop of main takes its next step whenever it has one: a
\* blocking call returns once it can, and nothing else is scheduled.  Stated
\* for the steps after the header block, where the only other steps are the
\* client's.
SpecFair == Spec /\ WF_vars(AfterHeader)

-----------------------------------------------------------------------------
(* The route table on its own: any registrations, any URI *)

Patterns == {"", "/", "/a", "/a/b"}
MuxHandlers == {"h1", "h2"}
URIs == {"/a/b", "/a", "/", "x"}

InitMux ==
    /\ variant \in {"syscall", "net"}
    /\ pc = "mux" /\ proc = "running" /\ cause = ""
    /\ muxes = NoRoutes
    /\ forkLock = FALSE /\ listenFd = "none"
    /\ opened = 0 /\ closed = 0
    /\ NoConn
    /\ quri = ""

\* serveMux.handle, lines 123-125; handle, lines 313-315
mux_handle(pattern, handler) ==
    /\ pc = "mux"
    /\ pattern \in DOMAIN muxes \/ Cardinality(DOMAIN muxes) < MaxRoutes
    /\ muxes' = handle(muxes, pattern, handler)
    /\ found' = NoFound /\ quri' = ""
    /\ UNCHANGED <<variant, pc, proc, cause, forkLock, listenFd, opened, closed,
                   cin, toSend, wire, peer, buf, line, req, cur, acc, bodyRead,
                   wlog, sent, errLog>>

\* findHandler for a request with URI uri
mux_findHandler(uri) ==
    /\ pc = "mux"
    /\ \E f \in findHandlerResults(variant, muxes, uri) : found' = f
    /\ quri' = uri
    /\ UNCHANGED <<variant, pc, proc, cause, muxes, forkLock, listenFd, opened,
                   closed, cin, toSend, wire, peer, buf, line, req, cur, acc,
                   bodyRead, wlog, sent, errLog>>

NextMux ==
    \/ \E p \in Patterns, h \in MuxHandlers : mux_handle(p, h)
    \/ \E u \in URIs : mux_findHandler(u)

SpecMux == InitMux /\ [][NextMux]_vars

-----------------------------------------------------------------------------
(* Reading a response back, as a client would *)

\* strconv.Atoi of a string of decimal digits
RECURSIVE Atoi(_)
Atoi(s) ==
    IF s = "" THEN 0
    ELSE 10 * Atoi(SubSeq(s, 1, Len(s) - 1)) + Index(Digits, SubSeq(s, Len(s), Len(s)))

\* the bytes after the blank line that ends the response's header block
ResponseBody(resp) ==
    Slice(resp, Index(resp, CRLF \o CRLF) + 4, Len(resp))

\* the header block of a response: status line and header lines, each with its CRLF
ResponseHead(resp) == Slice(resp, 0, Index(resp, CRLF \o CRLF) + 2)

\* the value of header `name` in a response, "" if the header is absent
ResponseHeader(resp, name) ==
    LET head == ResponseHead(resp)
        at   == Index(head, CRLF \o name \o ": ")
        from == Slice(head, at + Len(name) + 4, Len(head))
    IN  IF at < 0 THEN "" ELSE Slice(from, 0, Index(from, CRLF))

OkHandlers == {"hello", "fallback", "logHandler"}

\* the handler chosen for the current request has run
HandlerRan == pc = "accept" /\ found # NoFound /\ ~found.err

Matches(m, uri) == {k \in DOMAIN m : HasPrefix(uri, k)}

\* tokens of a request line: the non-empty pieces between spaces
NumTokens(s) == Cardinality({i \in 1..Len(Split(s, " ")) : Split(s, " ")[i] # ""})

-----------------------------------------------------------------------------
(* Claims *)

\* C1: if P1 and P2 are registered, both are prefixes of the request URI and
\* P1 is strictly shorter than P2, findHandler returns a handler and it is
\* never the one stored under P1.
C1_LongestPrefixWins ==
    \A p1, p2 \in DOMAIN muxes :
        (/\ found # NoFound /\ ~req.nil
         /\ HasPrefix(req.uri, p1) /\ HasPrefix(req.uri, p2)
         /\ Len(p1) < Len(p2))
        => (~found.err /\ found.key # p1)

\* C2: whenever the server loop is back at Accept, every connection socket
\* Accept returned has been closed: as many closed as opened.
C2_ClosedBeforeAccept == pc = "accept" => closed = opened

\* C3: the process never ends because of a failure to parse a request or to
\* route it.
C3_ConnErrorsNotFatal ==
    proc # "running" => cause \notin {"parse", "read", "route"}

\* C4: findHandler returns the not-found error if and only if no registered
\* prefix is a prefix of the URI.
C4_NotFoundIffNoPrefix ==
    found # NoFound => (found.err <=> Matches(muxes, quri) = {})

\* C5: every response a 200 handler emits starts with the status line
\* "HTTP/1.0 200 OK" and has a Content-Length equal to the byte length of the
\* body emitted after the blank line; GET /hello gets such a response.
C5_ContentLengthExact ==
    /\ (HandlerRan /\ found.handler \in OkHandlers) =>
          /\ HasPrefix(wlog, "HTTP/1.0 200 OK" \o CRLF)
          /\ ResponseHeader(wlog, "Content-Length") # ""
          /\ Atoi(ResponseHeader(wlog, "Content-Length")) = Len(ResponseBody(wlog))
    /\ (HandlerRan /\ req.method = "GET" /\ req.uri = "/hello") =>
          found.handler \in OkHandlers

\* C5 witness: GET /hello was answered by the /hello handler, all writes taken
C5_Witness ==
    /\ variant = "syscall" /\ HandlerRan
    /\ req.method = "GET" /\ req.uri = "/hello" /\ found.key = "/hello"
    /\ sent = wlog /\ Len(ResponseBody(wlog)) = 20

\* C6: when no registered prefix matches the URI, the cycle ends with the
\* server running and either a 404 with empty body and Connection: close
\* emitted, or nothing emitted and the connection closed.
C6_NoMatchOutcome ==
    (found.err /\ pc \in {"accept", "halt"}) =>
        /\ proc = "running"
        /\ \/ /\ HasPrefix(wlog, "HTTP/1.0 404 ")
              /\ ResponseBody(wlog) = ""
              /\ ResponseHeader(wlog, "Connection") = "close"
           \/ wlog = "" /\ closed = opened

\* C7: a request line of fewer than three tokens yields no Request and leaves
\* the process running.
C7_ShortLineIsParseError ==
    (line # <<>> /\ NumTokens(line[1]) < 3) => (proc = "running" /\ req = NoReq)

\* C8: the body of every Request the parser returns is at most BodyCap bytes
\* long, and it is the first bytes of what the client sent as body.
C8_BodyWithinCap ==
    ~req.nil => /\ Len(req.body) <= BodyCap
                /\ req.body = SubSeq(cin.body, 1, Len(req.body))

\* C8 witness: a client sent more than BodyCap bytes of body and the parser
\* returned a Request holding BodyCap of them
C8_Witness ==
    /\ ~req.nil /\ Len(cin.body) > BodyCap
    /\ req.method = "POST" /\ Len(req.body) = BodyCap

\* C9: a Request with method GET or HEAD has an empty body, and the parser
\* did not read the connection after the header block.
C9_NoBodyForGetHead ==
    (~req.nil /\ req.method \in {"GET", "HEAD"}) => (req.body = "" /\ ~bodyRead)

\* C10: a Request with another method, whose client has sent its whole
\* stream with a body of at most BodyCap bytes, has exactly that body.
C10_BodyExact ==
    (/\ ~req.nil /\ req.method \notin {"GET", "HEAD"}
     /\ toSend = "" /\ Len(cin.body) <= BodyCap)
        => req.body = cin.body

\* C11: when a write of the handler failed, the error is logged, the
\* connection is closed, and the process is running and back at Accept.
C11_WriteErrorRecovered ==
    (HandlerRan /\ sent # wlog) =>
        (proc = "running" /\ errLog # "" /\ closed = opened)

InLoop == pc \in {"accept", "readline", "readheader", "readbody", "routing", "writing"}

\* C12: after a failed listener setup the process has ended, no step follows
\* (no retry), and nothing was accepted; the server loop only ever runs on a
\* listener that was set up.
C12_SetupFailureFatal ==
    /\ cause = "setup" =>
          (proc # "running" /\ pc = "halt" /\ opened = 0 /\ ~ENABLED Next)
    /\ InLoop => listenFd = "listening"
    /\ opened > 0 => listenFd \in {"listening", "closed"}

\* C12 witness: net.Listen failed and the process ended
C12_Witness ==
    variant = "net" /\ cause = "setup" /\ listenFd = "none" /\ proc = "panic"

\* C13: a connection is accepted only at Accept, one at a time, and its cycle
\* goes Reading, Routing, Writing and back to Accept (a failed routing goes
\* straight back; a panic or log.Fatal ends the process).
C13_OneAtATime ==
    [][ /\ opened' # opened =>
             (pc = "accept" /\ pc' = "readline" /\ opened' = opened + 1)
        /\ pc = "accept"     => pc' \in {"readline", "halt"}
        /\ pc = "readline"   => pc' \in {"readline", "readheader", "halt"}
        /\ pc = "readheader" => pc' \in {"readheader", "readbody", "routing"}
        /\ pc = "readbody"   => pc' \in {"readbody", "routing", "halt"}
        /\ pc = "routing"    => pc' \in {"writing", "accept", "halt"}
        /\ pc = "writing"    => pc' = "accept"
      ]_vars

\* C13 witness: the second connection is in Writing after the first one's cycle
C13_Witness == opened = 2 /\ pc = "writing" /\ ~req.nil

\* the URI as the client wrote it: the bytes between the first and the second
\* space of the first line of its stream
ClientURI(in) ==
    LET first == Slice(in.head, 0, Index(in.head, CRLF))
        rest  == Slice(first, Index(first, " ") + 1, Len(first))
    IN  Slice(rest, 0, Index(rest, " "))

\* C14: the body the fallback handler emits is its fixed text around the URI
\* exactly as the client wrote it in the request line.
C14_EchoesURI ==
    (HandlerRan /\ found.handler = "fallback") =>
        ResponseBody(wlog) =
            "<h1>Using fallback matcher for path: " \o ClientURI(cin) \o "</h1>"

\* C14 witness: a URI with an escape and a query was echoed by the fallback handler
C14_Witness ==
    /\ HandlerRan /\ found.handler = "fallback"
    /\ ClientURI(cin) = "/a%20b?q=1"
    /\ Index(wlog, "/a%20b?q=1") >= 0

\* C15: the route table is written only by the handle calls of startup: every
\* later step leaves it as it is, and at every Accept it is the table main
\* registered.
C15_RoutesFrozen ==
    [][ /\ pc # "main" => muxes' = muxes
        /\ pc' = "accept" => muxes' = mainRoutes(variant) ]_vars

\* C15 witness: back at Accept after two cycles, handlers and error paths included
C15_Witness ==
    /\ pc = "accept" /\ opened = 2 /\ found # NoFound
    /\ muxes = mainRoutes(variant) /\ DOMAIN muxes # {}

RECURSIVE MapCase(_, _)
MapCase(s, upper) ==
    IF s = "" THEN ""
    ELSE (IF upper THEN ToUpper(SubSeq(s, 1, 1)) ELSE ToLower(SubSeq(s, 1, 1)))
         \o MapCase(Tail(s), upper)

\* the casings a header name is looked up under: canonical, lower and upper
Casings(name) ==
    {CanonicalMIMEHeaderKey(name), MapCase(name, FALSE), MapCase(name, TRUE)}

\* the request has been parsed, header block included
Parsed == pc \in {"readbody", "routing", "writing"} /\ ~req.nil

\* C16: on a parsed request, looking a stored header up under any casing of its
\* name yields the stored list of values, in the casing the client sent.
C16_LookupAnyCasing ==
    Parsed =>
        \A k \in DOMAIN req.header :
            \A n \in Casings(k) : Lookup(variant, req.header, n) = req.header[k]

\* C17: routing is reproducible: when the loop routes a request, findHandler
\* has one result for the table and the URI, whatever order the map is ranged
\* over.
C17_RoutingReproducible ==
    pc = "routing" =>
        Cardinality(findHandlerResults(variant, muxes, req.uri)) = 1

\* a complete request: a request line of three tokens and a header block that
\* ends with a blank line
CompleteRequest(in) ==
    /\ Index(in.head, CRLF \o CRLF) >= 0
    /\ NumTokens(Slice(in.head, 0, Index(in.head, CRLF))) = 3

\* C18: in the program of the package comment (lines 1-265), once the client
\* has sent a complete request and closed its sending side, and the parser
\* is at the body, the cycle finishes and the loop is back at Accept.
C18_CycleFinishes ==
    (/\ variant = "syscall" /\ pc = "readbody"
     /\ CompleteRequest(cin) /\ peer = "closed") ~> (pc = "accept")

\* C19: once newNetSocket has returned, with a socket or with an error,
\* syscall.ForkLock is not held.
C19_ForkLockReleased ==
    (variant = "syscall" /\ pc \notin {"main", "listen"}) => ~forkLock

====
